---- MODULE Spec2Model ----
(***************************************************************************)
(* The grid widget of C-Standards (src/src/grid.c) and the mouse part of   *)
(* its input layer (src/src/input.c), as a state machine.                  *)
(*                                                                         *)
(* Float coordinates (grid->x, grid->y, grid->sx, grid->sy, the draw       *)
(* primitives' arguments, grid_pair_t.x/.y) are kept in fixed point: a     *)
(* float v is stored as the integer v * FP.  Pixel quantities that are int *)
(* in the source (sw, sh, SDL_Rect fields, the mouse position) are plain   *)
(* integers; ( float ) n is n * FP and ( int ) v truncates toward zero.    *)
(***************************************************************************)
EXTENDS Integers, Sequences, FiniteSets, TLC

VARIABLES
  grids,      \* allocated grid_t objects: grid id -> struct grid_t
  onceCall,   \* static bool onceCall of Stds_InitializeGridTextures
  mouse,      \* app.mouse: [x, y, button]
  edgeHit,    \* whether Stds_IsMouseOverRect counts a point on the rect's edge
  texHeap,    \* every texture Stds_LoadTexture returned: handle -> [file, grid, kind, destroyed]
  anims,      \* the caller's animation_t objects: id -> struct animation_t
  fault,      \* "none", or the undefined behaviour the process ran into
  calls,      \* collaborator calls (draw, destroy) made by the last operation, in order
  ret,        \* value returned by the last operation (NoRet when it returns nothing)
  lastOp,     \* the last operation: [name, grid, args]
  hits        \* per button: ClickTest hits since the last button-down event

vars == <<grids, onceCall, mouse, edgeHit, texHeap, anims, fault, calls, ret, lastOp, hits>>

---------------------------------------------------------------------------
(* Bounds of the model *)

FP == 2          \* fixed-point denominator: coordinates are multiples of 1/FP
MaxGrids == 2    \* grid_t objects alive at once
MaxCols == 2     \* cols passed to Stds_CreateGrid: 1..MaxCols
MaxRows == 2     \* rows passed to Stds_CreateGrid: 1..MaxRows
CellW == 2       \* squareWidth passed to Stds_CreateGrid
CellH == 2       \* squareHeight passed to Stds_CreateGrid
MaxButtons == 2  \* mouse button codes 1..MaxButtons
MaxCap == 2      \* textureBuffer passed to Stds_InitializeGridTextures: 0..MaxCap
MaxLoads == 3    \* textures loaded over a run
MaxFiles == 2    \* distinct image files
MaxSheet == 2    \* sprite-sheet cols/rows passed to Stds_AddSpriteSheetToGrid
MaxAnims == 2    \* animation_t objects of the caller
MaxAnimLen == 2  \* entries of one grid's animation vector
MaxFrame == 2    \* frames of an animation before it wraps

NULL == 0        \* the null pointer; every handle and id is >= 1
Uninit == -999   \* the content of memory that was never written

GridIds == 1..MaxGrids
Buttons == 1..MaxButtons
Files == 1..MaxFiles
AnimIds == 1..MaxAnims
Origins == {-1, 0, 1}                     \* x, y of Stds_CreateGrid, in 1/FP pixels
MouseXs == -1..(MaxCols * CellW + 1)
MouseYs == -1..(MaxRows * CellH + 1)
Poses == {<<0, 90>>, <<1, 0>>}            \* <<flip, angle>> passed to the draw calls

---------------------------------------------------------------------------
(* Conversions *)

\* ( float ) n for an int n
ToFloat(n) == n * FP

\* ( int ) v for a float v: C truncates toward zero
ToInt(v) == IF v >= 0 THEN v \div FP ELSE -((-v) \div FP)

\* Stds_AssertGrid: the pointer is not null
Stds_AssertGrid(gp) == gp # NULL

\* Stds_IsMouseOverRect( x, y, &rect ): the rect contains the point.  A point
\* strictly inside is contained, a point outside the closed rect is not; what
\* happens on the edge is the collaborator's choice (edge).
Stds_IsMouseOverRect(x, y, rect, edge) ==
  IF edge
  THEN /\ x >= ToFloat(rect.x) /\ x <= ToFloat(rect.x + rect.w)
       /\ y >= ToFloat(rect.y) /\ y <= ToFloat(rect.y + rect.h)
  ELSE /\ x > ToFloat(rect.x) /\ x < ToFloat(rect.x + rect.w)
       /\ y > ToFloat(rect.y) /\ y < ToFloat(rect.y + rect.h)

---------------------------------------------------------------------------
(* Collaborator calls: each is logged with its arguments *)

Stds_DrawLine(x0, y0, x1, y1, color) ==
  [prim |-> "line", x0 |-> x0, y0 |-> y0, x1 |-> x1, y1 |-> y1, color |-> color]

Stds_DrawRectF(rect, color) ==
  [prim |-> "rect", x |-> rect.x, y |-> rect.y, w |-> rect.w, h |-> rect.h, color |-> color]

Stds_BlitTexture(tex, clip, x, y, w, h, angle, flip, camera) ==
  [prim |-> "blit", tex |-> tex, clip |-> clip, x |-> x, y |-> y, w |-> w, h |-> h,
   angle |-> angle, flip |-> flip, camera |-> camera]

---------------------------------------------------------------------------
(* struct grid_t as Stds_CreateGrid leaves it *)

NoClip == [x |-> 0, y |-> 0, w |-> 0, h |-> 0]

NewGrid(x, y, squareWidth, squareHeight, cols, rows) ==
  [x |-> x, y |-> y, sx |-> x, sy |-> y,
   sw |-> squareWidth, sh |-> squareHeight,
   cols |-> cols, rows |-> rows,
   lineColor |-> "lineColor", fillColor |-> "fillColor",
   textures |-> [isNull |-> TRUE, slots |-> <<>>],
   textureBuffer |-> 0,
   spriteSheet |-> NULL,
   clip |-> NoClip,
   spriteSheetCols |-> 0, spriteSheetRows |-> 0,
   animation |-> <<>>,
   animationBuffer |-> -1,
   isCameraOn |-> FALSE]

\* The pointers a caller can pass for a grid: a live grid or NULL
GridPtrs == DOMAIN grids \cup {NULL}

\* Two operation records name the same call
SameCall(a, b) == a.name = b.name /\ a.grid = b.grid /\ a.args = b.args

\* The record of an operation; again: it repeats the operation before it
Op(name, gp, args) ==
  [name |-> name, grid |-> gp, args |-> args,
   again |-> SameCall(lastOp, [name |-> name, grid |-> gp, args |-> args])]

NoRet == [v |-> 0]

\* grids with grid gp replaced by g (nothing to replace behind a null pointer)
PutGrid(gp, g) == IF gp = NULL THEN grids ELSE [grids EXCEPT ![gp] = g]

---------------------------------------------------------------------------
(* Stds_CreateGrid *)

Stds_CreateGrid(id, x, y, squareWidth, squareHeight, cols, rows) ==
  /\ fault = "none"
  /\ id \notin DOMAIN grids
  /\ grids' = (id :> NewGrid(x, y, squareWidth, squareHeight, cols, rows)) @@ grids
  /\ calls' = <<>>
  /\ ret' = [v |-> id]
  /\ lastOp' = Op("CreateGrid", id, <<x, y, squareWidth, squareHeight, cols, rows>>)
  /\ UNCHANGED <<onceCall, mouse, edgeHit, texHeap, anims, fault, hits>>

---------------------------------------------------------------------------
(* Stds_DrawLineGrid *)

\* grid->x = grid->sx; grid->y = grid->sy;
ResetCursor(g) == [g EXCEPT !.x = g.sx, !.y = g.sy]

\* for r: one horizontal line at the cursor, then the cursor moves down
RECURSIVE LineRowLoop(_, _)
LineRowLoop(st, r) ==
  IF r >= st.grid.rows THEN st
  ELSE LET g == st.grid
       IN  LineRowLoop(
             [grid |-> [g EXCEPT !.y = @ + ToFloat(g.sh)],
              calls |-> Append(st.calls,
                          Stds_DrawLine(g.x, g.y, g.x + ToFloat(g.sw * g.cols), g.y,
                                        g.lineColor))],
             r + 1)

\* for c: one vertical line at the cursor, then the cursor moves right
RECURSIVE LineColLoop(_, _)
LineColLoop(st, c) ==
  IF c >= st.grid.cols THEN st
  ELSE LET g == st.grid
       IN  LineColLoop(
             [grid |-> [g EXCEPT !.x = @ + ToFloat(g.sw)],
              calls |-> Append(st.calls,
                          Stds_DrawLine(g.x, g.y, g.x, g.y + ToFloat(g.sh * g.rows),
                                        g.lineColor))],
             c + 1)

\* Only the bottom line closes the grid
ClosingLinesBottomOnly(g) ==
  << Stds_DrawLine(g.x, g.y + ToFloat(g.sh * g.rows),
                   g.x + ToFloat(g.sw * g.cols),
                   g.y + ToFloat(g.sh * g.rows), g.lineColor) >>

\* The two lines that close the grid, drawn from the cursor of g
ClosingLines(g) ==
  << Stds_DrawLine(g.x, g.y + ToFloat(g.sh * g.rows),
                   g.x + ToFloat(g.sw * g.cols),
                   g.y + ToFloat(g.sh * g.rows), g.lineColor),
     Stds_DrawLine(g.x + ToFloat(g.sw * g.cols), g.y,
                   g.x + ToFloat(g.sw * g.cols),
                   g.y + ToFloat(g.sh * g.rows), g.lineColor) >>

\* The cursor is not taken back after the loops
DrawLineGridNoRewind(g0) ==
  LET s1 == LineRowLoop([grid |-> ResetCursor(g0), calls |-> <<>>], 0)
      s3 == LineColLoop(s1, 0)
  IN  [grid |-> s3.grid, calls |-> s3.calls \o ClosingLines(s3.grid)]

\* The cursor is never set: the pass starts where the last one ended
DrawLineGridLeaky(g0) ==
  LET s1 == LineRowLoop([grid |-> g0, calls |-> <<>>], 0)
      s3 == LineColLoop(s1, 0)
  IN  [grid |-> s3.grid, calls |-> s3.calls \o ClosingLines(s3.grid)]

\* The body under the Stds_AssertGrid test: [grid, calls] when it returns
DrawLineGridPass(g0) ==
  LET s1 == LineRowLoop([grid |-> ResetCursor(g0), calls |-> <<>>], 0)
      s2 == [s1 EXCEPT !.grid.y = s1.grid.sy]
      s3 == LineColLoop(s2, 0)
      g  == [s3.grid EXCEPT !.x = s3.grid.sx]
  IN  [grid |-> g, calls |-> s3.calls \o ClosingLines(g)]

Stds_DrawLineGrid(gp) ==
  /\ fault = "none"
  /\ IF Stds_AssertGrid(gp)
     THEN LET res == DrawLineGridPass(grids[gp])
          IN  /\ grids' = PutGrid(gp, res.grid)
              /\ calls' = res.calls
     ELSE /\ grids' = grids
          /\ calls' = <<>>
  /\ ret' = NoRet
  /\ lastOp' = Op("DrawLineGrid", gp, <<>>)
  /\ UNCHANGED <<onceCall, mouse, edgeHit, texHeap, anims, fault, hits>>

---------------------------------------------------------------------------
(* Stds_FillWholeGrid *)

\* inner loop: one filled rect per column, fillRect.x advancing
RECURSIVE FillColLoop(_, _, _)
FillColLoop(g, st, c) ==
  IF c >= g.cols THEN st
  ELSE FillColLoop(g,
         [rect  |-> [st.rect EXCEPT !.x = @ + ToFloat(g.sw)],
          calls |-> Append(st.calls, Stds_DrawRectF(st.rect, g.fillColor))],
         c + 1)

\* outer loop: after each row fillRect.y advances and fillRect.x returns to sx
RECURSIVE FillRowLoop(_, _, _)
FillRowLoop(g, st, r) ==
  IF r >= g.rows THEN st
  ELSE LET s1 == FillColLoop(g, st, 0)
       IN  FillRowLoop(g,
             [rect  |-> [s1.rect EXCEPT !.y = @ + ToFloat(g.sh), !.x = g.sx],
              calls |-> s1.calls],
             r + 1)

FillWholeGridPass(g0) ==
  LET g == ResetCursor(g0)
      fillRect == [x |-> g.x, y |-> g.y, w |-> ToFloat(g.sw), h |-> ToFloat(g.sh)]
      st == FillRowLoop(g, [rect |-> fillRect, calls |-> <<>>], 0)
  IN  [grid |-> g, calls |-> st.calls]

Stds_FillWholeGrid(gp) ==
  /\ fault = "none"
  /\ IF Stds_AssertGrid(gp)
     THEN LET res == FillWholeGridPass(grids[gp])
          IN  /\ grids' = PutGrid(gp, res.grid)
              /\ calls' = res.calls
     ELSE /\ grids' = grids
          /\ calls' = <<>>
  /\ ret' = NoRet
  /\ lastOp' = Op("FillWholeGrid", gp, <<>>)
  /\ UNCHANGED <<onceCall, mouse, edgeHit, texHeap, anims, fault, hits>>

---------------------------------------------------------------------------
(* Stds_OnGridHover *)

\* The local grid_pair_t p before anything is stored in it
UninitPair == [c |-> Uninit, r |-> Uninit, x |-> Uninit, y |-> Uninit]

\* The sentinel stored after the loops: p.c = -1; p.r = -1; (p.x, p.y keep their content)
NoCell(p) == [p EXCEPT !.c = -1, !.r = -1]

\* inner loop of Stds_OnGridHover: [hit, rect, p]
RECURSIVE HoverColLoop(_, _, _, _, _)
HoverColLoop(g, m, edge, st, c) ==
  IF c >= g.cols THEN st
  ELSE LET p == [st.p EXCEPT !.c = c, !.x = ToFloat(st.rect.x)]
       IN  IF Stds_IsMouseOverRect(ToFloat(m.x), ToFloat(m.y), st.rect, edge)
           THEN [hit |-> TRUE, rect |-> st.rect, p |-> p]
           ELSE HoverColLoop(g, m, edge,
                  [hit |-> FALSE, rect |-> [st.rect EXCEPT !.x = @ + g.sw], p |-> p],
                  c + 1)

\* outer loop of Stds_OnGridHover
RECURSIVE HoverRowLoop(_, _, _, _, _)
HoverRowLoop(g, m, edge, st, r) ==
  IF r >= g.rows THEN st
  ELSE LET p  == [st.p EXCEPT !.r = r, !.y = ToFloat(st.rect.y)]
           s1 == HoverColLoop(g, m, edge, [st EXCEPT !.p = p], 0)
       IN  IF s1.hit THEN s1
           ELSE HoverRowLoop(g, m, edge,
                  [s1 EXCEPT !.rect.y = @ + g.sh, !.rect.x = ToInt(g.sx)],
                  r + 1)

\* The body under the Stds_AssertGrid test: [grid, hit, p]
OnGridHoverPass(g0, m, edge) ==
  LET g == ResetCursor(g0)
      hoverRect == [x |-> ToInt(g.x), y |-> ToInt(g.y), w |-> g.sw, h |-> g.sh]
      st == HoverRowLoop(g, m, edge, [hit |-> FALSE, rect |-> hoverRect, p |-> UninitPair], 0)
  IN  [grid |-> g, hit |-> st.hit, p |-> st.p]

Stds_OnGridHover(gp) ==
  /\ fault = "none"
  /\ IF Stds_AssertGrid(gp)
     THEN LET res == OnGridHoverPass(grids[gp], mouse, edgeHit)
          IN  /\ grids' = PutGrid(gp, res.grid)
              /\ ret' = IF res.hit THEN res.p ELSE NoCell(res.p)
     ELSE /\ grids' = grids
          /\ ret' = NoCell(UninitPair)
  /\ calls' = <<>>
  /\ lastOp' = Op("OnGridHover", gp, <<>>)
  /\ UNCHANGED <<onceCall, mouse, edgeHit, texHeap, anims, fault, hits>>

---------------------------------------------------------------------------
(* Stds_OnGridClicked *)

\* inner loop of Stds_OnGridClicked: the rect must contain the pointer and
\* app.mouse.button[mouseCode] must be set
RECURSIVE ClickColLoop(_, _, _, _, _, _)
ClickColLoop(g, m, edge, mouseCode, st, c) ==
  IF c >= g.cols THEN st
  ELSE LET p == [st.p EXCEPT !.c = c, !.x = ToFloat(st.rect.x)]
       IN  IF /\ Stds_IsMouseOverRect(ToFloat(m.x), ToFloat(m.y), st.rect, edge)
              /\ m.button[mouseCode] # 0
           THEN [hit |-> TRUE, rect |-> st.rect, p |-> p]
           ELSE ClickColLoop(g, m, edge, mouseCode,
                  [hit |-> FALSE, rect |-> [st.rect EXCEPT !.x = @ + g.sw], p |-> p],
                  c + 1)

\* outer loop of Stds_OnGridClicked
RECURSIVE ClickRowLoop(_, _, _, _, _, _)
ClickRowLoop(g, m, edge, mouseCode, st, r) ==
  IF r >= g.rows THEN st
  ELSE LET p  == [st.p EXCEPT !.r = r, !.y = ToFloat(st.rect.y)]
           s1 == ClickColLoop(g, m, edge, mouseCode, [st EXCEPT !.p = p], 0)
       IN  IF s1.hit THEN s1
           ELSE ClickRowLoop(g, m, edge, mouseCode,
                  [s1 EXCEPT !.rect.y = @ + g.sh, !.rect.x = ToInt(g.sx)],
                  r + 1)

\* The press is left in place
ButtonsKept(button, mouseCode, hit) == button

\* app.mouse.button after a scan: a hit consumes the press
ButtonsAfterClick(button, mouseCode, hit) ==
  IF hit THEN [button EXCEPT ![mouseCode] = 0] ELSE button

\* The scan does not look at app.mouse.button[mouseCode]
OnGridClickedAnyButton(g0, m, edge, mouseCode) ==
  LET g == ResetCursor(g0)
      clickRect == [x |-> ToInt(g.x), y |-> ToInt(g.y), w |-> g.sw, h |-> g.sh]
      held == [m EXCEPT !.button[mouseCode] = 1]
      st == ClickRowLoop(g, held, edge, mouseCode,
                         [hit |-> FALSE, rect |-> clickRect, p |-> UninitPair], 0)
  IN  [grid |-> g, hit |-> st.hit, p |-> st.p,
       button |-> ButtonsAfterClick(m.button, mouseCode, st.hit)]

\* The body under the Stds_AssertGrid test: [grid, hit, p, button]
OnGridClickedPass(g0, m, edge, mouseCode) ==
  LET g == ResetCursor(g0)
      clickRect == [x |-> ToInt(g.x), y |-> ToInt(g.y), w |-> g.sw, h |-> g.sh]
      st == ClickRowLoop(g, m, edge, mouseCode,
                         [hit |-> FALSE, rect |-> clickRect, p |-> UninitPair], 0)
  IN  [grid |-> g, hit |-> st.hit, p |-> st.p,
       button |-> ButtonsAfterClick(m.button, mouseCode, st.hit)]

Stds_OnGridClicked(gp, mouseCode) ==
  /\ fault = "none"
  /\ IF Stds_AssertGrid(gp)
     THEN LET res == OnGridClickedPass(grids[gp], mouse, edgeHit, mouseCode)
          IN  /\ grids' = PutGrid(gp, res.grid)
              /\ mouse' = [mouse EXCEPT !.button = res.button]
              /\ ret' = IF res.hit THEN res.p ELSE NoCell(res.p)
              /\ hits' = IF res.hit THEN [hits EXCEPT ![mouseCode] = @ + 1] ELSE hits
     ELSE /\ grids' = grids
          /\ mouse' = mouse
          /\ ret' = NoCell(UninitPair)
          /\ hits' = hits
  /\ calls' = <<>>
  /\ lastOp' = Op("OnGridClicked", gp, <<mouseCode>>)
  /\ UNCHANGED <<onceCall, edgeHit, texHeap, anims, fault>>

---------------------------------------------------------------------------
(* input.c: the mouse events of Stds_ProcessInput *)

\* Stds_UpdateMouseState: SDL_GetMouseState stores the pointer position
Stds_UpdateMouseState(x, y) ==
  /\ fault = "none"
  /\ mouse' = [mouse EXCEPT !.x = x, !.y = y]
  /\ calls' = <<>>
  /\ ret' = NoRet
  /\ lastOp' = Op("UpdateMouseState", NULL, <<x, y>>)
  /\ UNCHANGED <<grids, onceCall, edgeHit, texHeap, anims, fault, hits>>

\* case SDL_MOUSEBUTTONDOWN
Stds_MousePressed(b) ==
  /\ fault = "none"
  /\ mouse' = [mouse EXCEPT !.button[b] = 1]
  /\ hits' = [hits EXCEPT ![b] = 0]
  /\ calls' = <<>>
  /\ ret' = NoRet
  /\ lastOp' = Op("MousePressed", NULL, <<b>>)
  /\ UNCHANGED <<grids, onceCall, edgeHit, texHeap, anims, fault>>

\* case SDL_MOUSEBUTTONUP
Stds_MouseReleased(b) ==
  /\ fault = "none"
  /\ mouse' = [mouse EXCEPT !.button[b] = 0]
  /\ calls' = <<>>
  /\ ret' = NoRet
  /\ lastOp' = Op("MouseReleased", NULL, <<b>>)
  /\ UNCHANGED <<grids, onceCall, edgeHit, texHeap, anims, fault, hits>>

---------------------------------------------------------------------------
(* Textures: Stds_LoadTexture, SDL_QueryTexture, SDL_DestroyTexture *)

\* Pixel size of the image in a file, as SDL_QueryTexture reports it
TexW(file) == 4 + file
TexH(file) == 2 + file

\* Stds_LoadTexture( filePath ): the handle of the texture it creates
NextHandle == Len(texHeap) + 1

\* texHeap after the load; kind tells a grid texture from a sprite-sheet
Loaded(file, gp, kind) ==
  Append(texHeap, [file |-> file, grid |-> gp, kind |-> kind, destroyed |-> 0])

\* SDL_DestroyTexture( tex ) for each tex of the sequence, in order
RECURSIVE Destroyed(_, _)
Destroyed(heap, texs) ==
  IF texs = <<>> THEN heap
  ELSE LET t == Head(texs)
       IN  Destroyed(IF t \in 1..Len(heap)
                     THEN [heap EXCEPT ![t].destroyed = @ + 1]
                     ELSE heap,
                     Tail(texs))

DestroyCall(tex) == [prim |-> "destroy", tex |-> tex]

---------------------------------------------------------------------------
(* Stds_InitializeGridTextures *)

\* malloc( n * sizeof( SDL_Texture * ) ): n unwritten slots
Malloc(n, isNull) == [isNull |-> isNull, slots |-> [i \in 1..n |-> Uninit]]

\* The latch is not consulted: every call sizes the array
InitializeGridTexturesAlways(g, once, textureBuffer, isNull) ==
  [grid     |-> [g EXCEPT !.textures = Malloc(textureBuffer, isNull),
                          !.textureBuffer = textureBuffer],
   onceCall |-> TRUE]

\* The latch is kept per grid: a grid without an array is sized
InitializeGridTexturesPerGrid(g, once, textureBuffer, isNull) ==
  IF g.textures.isNull
  THEN [grid     |-> [g EXCEPT !.textures = Malloc(textureBuffer, isNull),
                               !.textureBuffer = textureBuffer],
        onceCall |-> TRUE]
  ELSE [grid |-> g, onceCall |-> once]

\* The function's effect on the grid and on the static latch: [grid, onceCall]
InitializeGridTexturesPass(g, once, textureBuffer, isNull) ==
  IF ~once
  THEN [grid     |-> [g EXCEPT !.textures = Malloc(textureBuffer, isNull),
                               !.textureBuffer = textureBuffer],
        onceCall |-> TRUE]
  ELSE [grid |-> g, onceCall |-> once]

\* malloc( 0 ) may return NULL or a pointer to nothing
Stds_InitializeGridTextures(gp, textureBuffer) ==
  /\ fault = "none"
  /\ IF Stds_AssertGrid(gp)
     THEN \E isNull \in (IF textureBuffer = 0 THEN BOOLEAN ELSE {FALSE}) :
            LET res == InitializeGridTexturesPass(grids[gp], onceCall, textureBuffer, isNull)
            IN  /\ grids' = PutGrid(gp, res.grid)
                /\ onceCall' = res.onceCall
     ELSE UNCHANGED <<grids, onceCall>>
  /\ calls' = <<>>
  /\ ret' = NoRet
  /\ lastOp' = Op("InitializeGridTextures", gp, <<textureBuffer>>)
  /\ UNCHANGED <<mouse, edgeHit, texHeap, anims, fault, hits>>

---------------------------------------------------------------------------
(* Stds_AddGridTexture *)

\* The capacity test is off by one: a grid without slots takes a texture
AddGridTextureIndexOffByOne(g) ==
  LET currentTextureNum == -1
  IN  IF currentTextureNum <= g.textureBuffer - 1 THEN currentTextureNum + 1 ELSE -1

\* The slot the texture goes to (0-based), or -1: currentTextureNum starts at -1
\* on every call
AddGridTextureIndex(g) ==
  LET currentTextureNum == -1
  IN  IF currentTextureNum < g.textureBuffer - 1 THEN currentTextureNum + 1 ELSE -1

Stds_AddGridTexture(gp, file) ==
  /\ fault = "none"
  /\ IF Stds_AssertGrid(gp) /\ AddGridTextureIndex(grids[gp]) # -1
     THEN LET i == AddGridTextureIndex(grids[gp])
          IN  /\ Len(texHeap) < MaxLoads
              /\ texHeap' = Loaded(file, gp, "texture")
              /\ grids' = [grids EXCEPT ![gp].textures.slots[i + 1] = NextHandle]
              /\ ret' = [v |-> i]
     ELSE /\ UNCHANGED <<grids, texHeap>>
          /\ ret' = [v |-> -1]
  /\ calls' = <<>>
  /\ lastOp' = Op("AddGridTexture", gp, <<file>>)
  /\ UNCHANGED <<onceCall, mouse, edgeHit, anims, fault, hits>>

---------------------------------------------------------------------------
(* Stds_PutGridTexture *)

NullClip == [isNull |-> TRUE, rect |-> NoClip]
ClipOf(g) == [isNull |-> FALSE, rect |-> g.clip]

\* grid->textures[index]: a read outside the array yields what memory holds
TextureAt(g, index) ==
  IF index + 1 \in DOMAIN g.textures.slots THEN g.textures.slots[index + 1] ELSE Uninit

\* The upper test lets index = textureBuffer through
PutIndexOkInclusive(g, index) == index <= g.textureBuffer /\ index > -1

\* index < grid->textureBuffer && index > -1
PutIndexOk(g, index) == index < g.textureBuffer /\ index > -1

\* The calls the function makes
PutGridTextureCalls(g, col, row, index, flip, angle) ==
  IF PutIndexOk(g, index)
  THEN LET texturePosition == [x |-> g.x + ToFloat(col * g.sw),
                               y |-> g.y + ToFloat(row * g.sh),
                               w |-> ToFloat(g.sw), h |-> ToFloat(g.sh)]
       IN  << Stds_BlitTexture(TextureAt(g, index), NullClip,
                               texturePosition.x, texturePosition.y,
                               texturePosition.w, texturePosition.h,
                               angle, flip, g.isCameraOn) >>
  ELSE <<>>

Stds_PutGridTexture(gp, col, row, index, flip, angle) ==
  /\ fault = "none"
  /\ calls' = IF Stds_AssertGrid(gp)
              THEN PutGridTextureCalls(grids[gp], col, row, index, flip, angle)
              ELSE <<>>
  /\ ret' = NoRet
  /\ lastOp' = Op("PutGridTexture", gp, <<col, row, index, flip, angle>>)
  /\ UNCHANGED <<grids, onceCall, mouse, edgeHit, texHeap, anims, fault, hits>>

---------------------------------------------------------------------------
(* Stds_AddSpriteSheetToGrid *)

\* bool once_call = false; is a plain local: it is false on every call
SpriteSheetOnceCall == FALSE

\* The two divisors are taken for each other
AddSpriteSheetSwapped(g, tex, file, cols, rows) ==
  [g EXCEPT !.spriteSheet = tex,
            !.clip.w = TexW(file) \div rows,
            !.clip.h = TexH(file) \div cols,
            !.spriteSheetCols = cols,
            !.spriteSheetRows = rows]

\* The grid after the sheet `tex` of file `file` was attached
AddSpriteSheetPass(g, tex, file, cols, rows) ==
  [g EXCEPT !.spriteSheet = tex,
            !.clip.w = TexW(file) \div cols,
            !.clip.h = TexH(file) \div rows,
            !.spriteSheetCols = cols,
            !.spriteSheetRows = rows]

Stds_AddSpriteSheetToGrid(gp, file, cols, rows) ==
  /\ fault = "none"
  /\ IF Stds_AssertGrid(gp) /\ ~SpriteSheetOnceCall
     THEN /\ Len(texHeap) < MaxLoads
          /\ texHeap' = Loaded(file, gp, "sheet")
          /\ grids' = PutGrid(gp, AddSpriteSheetPass(grids[gp], NextHandle, file, cols, rows))
     ELSE UNCHANGED <<grids, texHeap>>
  /\ calls' = <<>>
  /\ ret' = NoRet
  /\ lastOp' = Op("AddSpriteSheetToGrid", gp, <<file, cols, rows>>)
  /\ UNCHANGED <<onceCall, mouse, edgeHit, anims, fault, hits>>

---------------------------------------------------------------------------
(* Stds_SelectSpriteForGrid *)

\* One of the two tests is enough
SelectSpriteEither(g, sheetCol, sheetRow) ==
  sheetCol < g.spriteSheetCols \/ sheetRow < g.spriteSheetRows

\* sheetCol < grid->spriteSheetCols && sheetRow < grid->spriteSheetRows
SelectSpriteOk(g, sheetCol, sheetRow) ==
  sheetCol < g.spriteSheetCols /\ sheetRow < g.spriteSheetRows

SelectSpritePass(g, sheetCol, sheetRow) ==
  IF SelectSpriteOk(g, sheetCol, sheetRow)
  THEN [g EXCEPT !.clip.x = sheetCol * g.clip.w, !.clip.y = sheetRow * g.clip.h]
  ELSE g

Stds_SelectSpriteForGrid(gp, sheetCol, sheetRow) ==
  /\ fault = "none"
  /\ grids' = IF Stds_AssertGrid(gp)
              THEN PutGrid(gp, SelectSpritePass(grids[gp], sheetCol, sheetRow))
              ELSE grids
  /\ calls' = <<>>
  /\ ret' = NoRet
  /\ lastOp' = Op("SelectSpriteForGrid", gp, <<sheetCol, sheetRow>>)
  /\ UNCHANGED <<onceCall, mouse, edgeHit, texHeap, anims, fault, hits>>

---------------------------------------------------------------------------
(* Stds_DrawSelectedSpriteOnGrid *)

DrawSelectedSpriteCalls(g, gridCol, gridRow, flip, angle) ==
  IF gridCol < g.cols /\ gridRow < g.rows
  THEN LET position == [x |-> g.x + ToFloat(gridCol * g.sw),
                        y |-> g.y + ToFloat(gridRow * g.sh),
                        w |-> ToFloat(g.sw), h |-> ToFloat(g.sh)]
       IN  << Stds_BlitTexture(g.spriteSheet, ClipOf(g), position.x, position.y,
                               position.w, position.h, angle, flip, g.isCameraOn) >>
  ELSE <<>>

Stds_DrawSelectedSpriteOnGrid(gp, gridCol, gridRow, flip, angle) ==
  /\ fault = "none"
  /\ calls' = IF Stds_AssertGrid(gp)
              THEN DrawSelectedSpriteCalls(grids[gp], gridCol, gridRow, flip, angle)
              ELSE <<>>
  /\ ret' = NoRet
  /\ lastOp' = Op("DrawSelectedSpriteOnGrid", gp, <<gridCol, gridRow, flip, angle>>)
  /\ UNCHANGED <<grids, onceCall, mouse, edgeHit, texHeap, anims, fault, hits>>

---------------------------------------------------------------------------
(* Stds_AddAnimationToGrid *)

\* The caller's animation_t before any grid touched it
NewAnim == [pos_x |-> 0, pos_y |-> 0, dest_width |-> 0, dest_height |-> 0,
            flip |-> 0, angle |-> 0, camera |-> FALSE, frame |-> 0]

\* The index is advanced before the null test
AddAnimationCountsFirst(g, animate) ==
  LET g0 == [g EXCEPT !.animationBuffer = @ + 1]
  IN  IF animate = NULL
      THEN [grid |-> g0, ret |-> -1]
      ELSE [grid |-> [g0 EXCEPT !.animation = Append(@, animate)],
            ret  |-> g0.animationBuffer]

\* The animation is put in front of the ones the grid holds
AddAnimationInFront(g, animate) ==
  IF animate = NULL
  THEN [grid |-> g, ret |-> -1]
  ELSE LET g1 == [g EXCEPT !.animationBuffer = @ + 1,
                           !.animation = <<animate>> \o @]
       IN  [grid |-> g1, ret |-> g1.animationBuffer]

\* [grid, ret]: the null test comes first, then the grid test
AddAnimationPass(g, animate) ==
  IF animate = NULL
  THEN [grid |-> g, ret |-> -1]
  ELSE LET g1 == [g EXCEPT !.animationBuffer = @ + 1,
                           !.animation = Append(@, animate)]
       IN  [grid |-> g1, ret |-> g1.animationBuffer]

\* With a null grid both branches of the function return -1
Stds_AddAnimationToGrid(gp, animate) ==
  /\ fault = "none"
  /\ IF Stds_AssertGrid(gp)
     THEN LET res == AddAnimationPass(grids[gp], animate)
          IN  /\ Len(res.grid.animation) <= MaxAnimLen
              /\ grids' = PutGrid(gp, res.grid)
              /\ ret' = [v |-> res.ret]
     ELSE /\ grids' = grids
          /\ ret' = [v |-> -1]
  /\ calls' = <<>>
  /\ lastOp' = Op("AddAnimationToGrid", gp, <<animate>>)
  /\ UNCHANGED <<onceCall, mouse, edgeHit, texHeap, anims, fault, hits>>

---------------------------------------------------------------------------
(* Stds_RenderAnimationToGrid *)

\* Stds_AnimationDraw( a ): logged with the animation's state when drawn
Stds_AnimationDraw(id, a) == [prim |-> "animDraw", anim |-> id, state |-> a]

\* Stds_AnimationUpdate( a ): playback advances by one tick
Stds_AnimationUpdate(a) == [a EXCEPT !.frame = (@ + 1) % MaxFrame]

\* The fields written through editAnim before the draw
RenderAnimationEdit(g, a, col, row, flip, angle) ==
  [a EXCEPT !.pos_x = g.x + ToFloat(col * g.sw),
            !.pos_y = g.y + ToFloat(row * g.sh),
            !.dest_width = g.sw,
            !.dest_height = g.sh,
            !.flip = flip,
            !.angle = angle,
            !.camera = g.isCameraOn]

\* Playback advances before the draw
RenderAnimationAdvanceFirst(g, id, a, col, row, flip, angle) ==
  LET edited == Stds_AnimationUpdate(RenderAnimationEdit(g, a, col, row, flip, angle))
  IN  [anim  |-> edited,
       calls |-> << Stds_AnimationDraw(id, edited) >>]

\* [anim, calls] for the animation object editAnim points to
RenderAnimationPass(g, id, a, col, row, flip, angle) ==
  LET edited == RenderAnimationEdit(g, a, col, row, flip, angle)
  IN  [anim  |-> Stds_AnimationUpdate(edited),
       calls |-> << Stds_AnimationDraw(id, edited) >>]

\* Stds_VectorGet with an index outside the vector returns no animation_t of the
\* grid: the writes through editAnim are undefined behaviour
Stds_RenderAnimationToGrid(gp, col, row, index, flip, angle) ==
  /\ fault = "none"
  /\ IF Stds_AssertGrid(gp) /\ col < grids[gp].cols /\ row < grids[gp].rows
     THEN IF index >= 0 /\ index < Len(grids[gp].animation)
          THEN LET id  == grids[gp].animation[index + 1]
                   res == RenderAnimationPass(grids[gp], id, anims[id], col, row, flip, angle)
               IN  /\ anims' = [anims EXCEPT ![id] = res.anim]
                   /\ calls' = res.calls
                   /\ fault' = fault
          ELSE /\ anims' = anims
               /\ calls' = <<>>
               /\ fault' = "RenderAnimationToGrid: write through invalid editAnim"
     ELSE /\ anims' = anims
          /\ calls' = <<>>
          /\ fault' = fault
  /\ ret' = NoRet
  /\ lastOp' = Op("RenderAnimationToGrid", gp, <<col, row, index, flip, angle>>)
  /\ UNCHANGED <<grids, onceCall, mouse, edgeHit, texHeap, hits>>

---------------------------------------------------------------------------
(* Stds_AddCollisionToGrid: the body is empty *)

Stds_AddCollisionToGrid(gp, col, row) ==
  /\ fault = "none"
  /\ calls' = <<>>
  /\ ret' = NoRet
  /\ lastOp' = Op("AddCollisionToGrid", gp, <<col, row>>)
  /\ UNCHANGED <<grids, onceCall, mouse, edgeHit, texHeap, anims, fault, hits>>

---------------------------------------------------------------------------
(* Stds_FreeGrid *)

\* The textures SDL_DestroyTexture is called on, in order: every slot below
\* textureBuffer when the array is allocated, then the sprite-sheet
FreeGridTextures(g) ==
  (IF ~g.textures.isNull
   THEN [i \in 1..g.textureBuffer |-> g.textures.slots[i]]
   ELSE <<>>)
  \o (IF g.spriteSheet # NULL THEN <<g.spriteSheet>> ELSE <<>>)

\* Destroying a slot that was never written is undefined behaviour: the process
\* may crash or go on.  The function reads through grid without a null test, so
\* it is only ever called on a live grid.
Stds_FreeGrid(gp) ==
  /\ fault = "none"
  /\ gp \in DOMAIN grids
  /\ LET texs == FreeGridTextures(grids[gp])
     IN  /\ texHeap' = Destroyed(texHeap, texs)
         /\ calls' = [i \in 1..Len(texs) |-> DestroyCall(texs[i])]
         /\ \E f \in (IF \E i \in 1..Len(texs) : texs[i] = Uninit
                      THEN {"none", "FreeGrid: SDL_DestroyTexture of an unwritten slot"}
                      ELSE {"none"}) : fault' = f
  /\ grids' = [h \in DOMAIN grids \ {gp} |-> grids[h]]
  /\ ret' = NoRet
  /\ lastOp' = Op("FreeGrid", gp, <<>>)
  /\ UNCHANGED <<onceCall, mouse, edgeHit, anims, hits>>

---------------------------------------------------------------------------
(* The operations with their arguments drawn from bounded sets *)

CellArgs == (0..MaxCols) \X (0..MaxRows)   \* <<col, row>>, in and out of the grid

CreateIn(origins) ==
  \E id \in GridIds, o \in origins, cols \in 1..MaxCols, rows \in 1..MaxRows :
    Stds_CreateGrid(id, o[1], o[2], CellW, CellH, cols, rows)

Free == \E gp \in DOMAIN grids : Stds_FreeGrid(gp)

DrawLines == \E gp \in DOMAIN grids : Stds_DrawLineGrid(gp)

Fill == \E gp \in DOMAIN grids : Stds_FillWholeGrid(gp)

Hover == \E gp \in DOMAIN grids : Stds_OnGridHover(gp)

ClickIn(buttons) == \E gp \in DOMAIN grids, b \in buttons : Stds_OnGridClicked(gp, b)

MouseMotion == \E x \in MouseXs, y \in MouseYs : Stds_UpdateMouseState(x, y)

MouseDownIn(buttons) == \E b \in buttons : Stds_MousePressed(b)

MouseUpIn(buttons) == \E b \in buttons : Stds_MouseReleased(b)

InitTexturesIn(sizes) ==
  \E gp \in DOMAIN grids, n \in sizes : Stds_InitializeGridTextures(gp, n)

AddTextureIn(files) == \E gp \in DOMAIN grids, file \in files : Stds_AddGridTexture(gp, file)

PutTextureIn(cells, indices, poses) ==
  \E gp \in DOMAIN grids, cell \in cells, index \in indices, pose \in poses :
    Stds_PutGridTexture(gp, cell[1], cell[2], index, pose[1], pose[2])

AddSpriteSheetIn(files) ==
  \E gp \in DOMAIN grids, file \in files, cols \in 1..MaxSheet, rows \in 1..MaxSheet :
    Stds_AddSpriteSheetToGrid(gp, file, cols, rows)

SelectSprite ==
  \E gp \in DOMAIN grids, c \in 0..MaxSheet, r \in 0..MaxSheet :
    Stds_SelectSpriteForGrid(gp, c, r)

DrawSelectedIn(cells, poses) ==
  \E gp \in DOMAIN grids, cell \in cells, pose \in poses :
    Stds_DrawSelectedSpriteOnGrid(gp, cell[1], cell[2], pose[1], pose[2])

AddAnimationIn(animations) ==
  \E gp \in DOMAIN grids, a \in animations : Stds_AddAnimationToGrid(gp, a)

RenderAnimationIn(cells, indices, poses) ==
  \E gp \in DOMAIN grids, cell \in cells, index \in indices, pose \in poses :
    Stds_RenderAnimationToGrid(gp, cell[1], cell[2], index, pose[1], pose[2])

AddCollision ==
  \E gp \in DOMAIN grids, cell \in CellArgs : Stds_AddCollisionToGrid(gp, cell[1], cell[2])

\* The operations that test Stds_AssertGrid, called with a null grid
NullGridCalls ==
  \/ Stds_DrawLineGrid(NULL)
  \/ Stds_FillWholeGrid(NULL)
  \/ Stds_OnGridHover(NULL)
  \/ Stds_OnGridClicked(NULL, 1)
  \/ Stds_InitializeGridTextures(NULL, 1)
  \/ Stds_AddGridTexture(NULL, 1)
  \/ Stds_PutGridTexture(NULL, 0, 0, 0, 0, 0)
  \/ Stds_AddSpriteSheetToGrid(NULL, 1, 1, 1)
  \/ Stds_SelectSpriteForGrid(NULL, 0, 0)
  \/ Stds_DrawSelectedSpriteOnGrid(NULL, 0, 0, 0, 0)
  \/ Stds_AddAnimationToGrid(NULL, 1)
  \/ Stds_RenderAnimationToGrid(NULL, 0, 0, 0, 0, 0)
  \/ Stds_AddCollisionToGrid(NULL, 0, 0)

---------------------------------------------------------------------------
(* The program: grids are created, given textures and freed *)

NoButtons == [b \in Buttons |-> 0]

\* The process with the grids of `gridSet` created, the pointer at (mx, my)
Scene(gridSet, edges, mx, my) ==
  /\ grids \in gridSet
  /\ onceCall = FALSE
  /\ mouse = [x |-> mx, y |-> my, button |-> NoButtons]
  /\ edgeHit \in edges
  /\ texHeap = <<>>
  /\ anims = [a \in AnimIds |-> NewAnim]
  /\ fault = "none"
  /\ calls = <<>>
  /\ ret = NoRet
  /\ lastOp = [name |-> "start", grid |-> NULL, args |-> <<>>, again |-> FALSE]
  /\ hits = [b \in Buttons |-> 0]

Init == Scene({<<>>}, BOOLEAN, 0, 0)

Next ==
  \/ CreateIn({<<1, -1>>})
  \/ Free
  \/ InitTexturesIn(0..MaxCap)
  \/ AddTextureIn(Files)
  \/ NullGridCalls

Spec == Init /\ [][Next]_vars

---------------------------------------------------------------------------
(* Hover testing on one grid of any geometry, the pointer anywhere *)

\* Grid 1 as Stds_CreateGrid returns it, for every origin of `origins`
OneGrid(origins) ==
  { (1 :> NewGrid(o[1], o[2], CellW, CellH, cols, rows)) :
      o \in origins, cols \in 1..MaxCols, rows \in 1..MaxRows }

InitHover == Scene(OneGrid(Origins \X Origins), BOOLEAN, 0, 0)

NextHover == Hover \/ MouseMotion

SpecHover == InitHover /\ [][NextHover]_vars

(***************************************************************************)
(* C1: Stds_OnGridHover returns (c, r) when the pointer is strictly inside *)
(* the screen rect of cell (c, r), origin + (c * cellW, r * cellH) of size *)
(* cellW x cellH, and the sentinel (-1, -1) when the pointer is outside    *)
(* every cell rect.                                                        *)
(***************************************************************************)

\* The screen rect of cell (c, r), in float coordinates
CellRect(g, c, r) ==
  [x |-> g.sx + ToFloat(c * g.sw), y |-> g.sy + ToFloat(r * g.sh),
   w |-> ToFloat(g.sw), h |-> ToFloat(g.sh)]

StrictlyInside(m, rect) ==
  /\ ToFloat(m.x) > rect.x /\ ToFloat(m.x) < rect.x + rect.w
  /\ ToFloat(m.y) > rect.y /\ ToFloat(m.y) < rect.y + rect.h

Outside(m, rect) ==
  \/ ToFloat(m.x) < rect.x \/ ToFloat(m.x) > rect.x + rect.w
  \/ ToFloat(m.y) < rect.y \/ ToFloat(m.y) > rect.y + rect.h

Cells(g) == (0..(g.cols - 1)) \X (0..(g.rows - 1))

C1_HoverReturnsCell ==
  (lastOp.name = "OnGridHover" /\ lastOp.grid # NULL) =>
    LET g == grids[lastOp.grid]
    IN  /\ \A cell \in Cells(g) :
              StrictlyInside(mouse, CellRect(g, cell[1], cell[2]))
                => (ret.c = cell[1] /\ ret.r = cell[2])
        /\ (\A cell \in Cells(g) : Outside(mouse, CellRect(g, cell[1], cell[2])))
              => (ret.c = -1 /\ ret.r = -1)

\* The same on grids whose origin is a whole number of pixels
C1_WholePixelOrigin ==
  (lastOp.name = "OnGridHover" /\ lastOp.grid # NULL
     /\ grids[lastOp.grid].sx % FP = 0 /\ grids[lastOp.grid].sy % FP = 0)
    => C1_HoverReturnsCell

---------------------------------------------------------------------------
(* Click testing on two grids that overlap in part *)

\* Grid 1 at the origin with any number of cells, grid 2 of one cell over
\* grid 1's second column
TwoGrids ==
  { (1 :> NewGrid(0, 0, CellW, CellH, cols, rows))
      @@ (2 :> NewGrid(ToFloat(CellW), 0, CellW, CellH, 1, 1)) :
      cols \in 1..MaxCols, rows \in 1..MaxRows }

InitClick == Scene(TwoGrids, BOOLEAN, 0, 0)

NextClick == ClickIn(Buttons) \/ MouseMotion \/ MouseDownIn(Buttons) \/ MouseUpIn(Buttons)

SpecClick == InitClick /\ [][NextClick]_vars

(***************************************************************************)
(* C2: one button press registers at most one click.  Between one          *)
(* button-down event for b and the next, at most one Stds_OnGridClicked    *)
(* call for b returns a cell, whatever the grids and pointer positions;    *)
(* and when a call returned a cell, the next call on the same grid for the *)
(* same button with the pointer where it was returns the sentinel.         *)
(***************************************************************************)

IsHit(r) == r.c # -1 \/ r.r # -1

C2_SecondClickMisses ==
  (/\ lastOp.name = "OnGridClicked" /\ lastOp.grid # NULL /\ IsHit(ret)
   /\ SameCall(lastOp', lastOp))
    => (ret'.c = -1 /\ ret'.r = -1)

C2_OneClickPerPress ==
  /\ [](\A b \in Buttons : hits[b] <= 1)
  /\ [][C2_SecondClickMisses]_vars

\* A second call for a consumed press misses with the pointer inside a cell
C2_Witness ==
  /\ lastOp.name = "OnGridClicked" /\ lastOp.grid # NULL /\ lastOp.again
  /\ hits[lastOp.args[1]] = 1
  /\ ret.c = -1 /\ ret.r = -1
  /\ \E cell \in Cells(grids[lastOp.grid]) :
       StrictlyInside(mouse, CellRect(grids[lastOp.grid], cell[1], cell[2]))

---------------------------------------------------------------------------
(* The cursor: every operation that moves or reads grid->x, grid->y, on    *)
(* one grid at (-1/FP, -1/FP) with the pointer inside its first cell       *)

InitCursor == Scene(OneGrid({<<-1, -1>>}), BOOLEAN, 1, 1)

NextCursor ==
  \/ DrawLines
  \/ Fill
  \/ Hover
  \/ ClickIn({MaxButtons})
  \/ MouseDownIn({MaxButtons})
  \/ InitTexturesIn({MaxCap})
  \/ PutTextureIn(CellArgs, {0}, {<<0, 90>>})
  \/ DrawSelectedIn(CellArgs, {<<0, 90>>})
  \/ AddAnimationIn({MaxAnims})
  \/ RenderAnimationIn(CellArgs, {0}, {<<0, 90>>})

SpecCursor == InitCursor /\ [][NextCursor]_vars

(***************************************************************************)
(* C3: the cursor never leaks out of a pass.  After every Stds_DrawLineGrid,*)
(* Stds_FillWholeGrid, Stds_OnGridHover and Stds_OnGridClicked call the    *)
(* grid's (x, y) equals (sx, sy), so between operations origin = start,    *)
(* and Stds_PutGridTexture, Stds_DrawSelectedSpriteOnGrid and              *)
(* Stds_RenderAnimationToGrid place cell (col, row) at                     *)
(* (sx + col * cellW, sy + row * cellH).                                   *)
(***************************************************************************)

PlacedAtCell(g, x, y, col, row) ==
  x = g.sx + ToFloat(col * g.sw) /\ y = g.sy + ToFloat(row * g.sh)

C3_CursorAtStart ==
  /\ \A gp \in DOMAIN grids : grids[gp].x = grids[gp].sx /\ grids[gp].y = grids[gp].sy
  /\ (lastOp.name \in {"PutGridTexture", "DrawSelectedSpriteOnGrid"} /\ calls # <<>>)
       => PlacedAtCell(grids[lastOp.grid], calls[1].x, calls[1].y,
                       lastOp.args[1], lastOp.args[2])
  /\ (lastOp.name = "RenderAnimationToGrid" /\ calls # <<>>)
       => PlacedAtCell(grids[lastOp.grid], calls[1].state.pos_x, calls[1].state.pos_y,
                       lastOp.args[1], lastOp.args[2])

\* The line pass has drawn a grid of several rows and columns and the origin
\* is back at the start
C3_Witness ==
  /\ lastOp.name = "DrawLineGrid" /\ Len(calls) > 2
  /\ grids[lastOp.grid].cols > 1 /\ grids[lastOp.grid].rows > 1
  /\ grids[lastOp.grid].x = grids[lastOp.grid].sx
  /\ grids[lastOp.grid].y = grids[lastOp.grid].sy

(***************************************************************************)
(* C4: Stds_DrawLineGrid and Stds_FillWholeGrid are idempotent in their    *)
(* output: called twice in a row on the same grid, either makes the same   *)
(* draw calls in the same order both times, whatever ran before.           *)
(***************************************************************************)

C4_SameCalls ==
  (lastOp.name \in {"DrawLineGrid", "FillWholeGrid"} /\ SameCall(lastOp', lastOp))
    => calls' = calls

C4_DrawTwiceSame == [][C4_SameCalls]_vars

\* The line pass has run twice in a row and drew lines
C4_Witness ==
  lastOp.name = "DrawLineGrid" /\ lastOp.again /\ Len(calls) > 2

(***************************************************************************)
(* C5: after Stds_InitializeGridTextures sized the array to n, successive  *)
(* Stds_AddGridTexture calls return 0, 1, ..., n-1, each texture in its    *)
(* own slot, and the call after those fails with -1 and stores nothing.    *)
(***************************************************************************)

\* Textures loaded so far by Stds_AddGridTexture for grid gp
AddedTextures(gp) ==
  { h \in 1..Len(texHeap) : texHeap[h].grid = gp /\ texHeap[h].kind = "texture" }

C5_SequentialIndices ==
  (lastOp.name = "AddGridTexture" /\ lastOp.grid # NULL) =>
    LET g == grids[lastOp.grid]
        k == Cardinality(AddedTextures(lastOp.grid))
    IN  IF ret.v # -1
        THEN /\ k <= g.textureBuffer
             /\ ret.v = k - 1
             /\ g.textures.slots[k] = Len(texHeap)
        ELSE k = g.textureBuffer

(***************************************************************************)
(* C6: the texture array of a grid is sized once.  Once a                  *)
(* Stds_InitializeGridTextures call has set the capacity, every later call *)
(* on the grid, with any size, changes nothing, and the capacity stays as  *)
(* it is for as long as the grid lives.  (A call can only have set the     *)
(* capacity when the latch onceCall is set.)                               *)
(***************************************************************************)

C6_Step ==
  onceCall =>
    \A gp \in DOMAIN grids \cap DOMAIN grids' :
      /\ grids'[gp].textureBuffer = grids[gp].textureBuffer
      /\ (lastOp'.name = "InitializeGridTextures" /\ lastOp'.grid = gp)
           => (grids'[gp] = grids[gp] /\ texHeap' = texHeap)

C6_SizedOnce == [][C6_Step]_vars

\* A later call with another size on a grid whose array is allocated
C6_Witness ==
  /\ lastOp.name = "InitializeGridTextures" /\ lastOp.grid # NULL
  /\ ~grids[lastOp.grid].textures.isNull
  /\ grids[lastOp.grid].textureBuffer > 0
  /\ lastOp.args[1] # grids[lastOp.grid].textureBuffer

---------------------------------------------------------------------------
(* The sprite-sheet of one grid.  No operation of this part reads edgeHit. *)

InitSprite == Scene(OneGrid({<<-1, -1>>}), {FALSE}, 0, 0)

NextSprite ==
  \/ AddSpriteSheetIn(Files)
  \/ SelectSprite
  \/ DrawSelectedIn(CellArgs, {<<1, 0>>})

SpecSprite == InitSprite /\ [][NextSprite]_vars

(***************************************************************************)
(* C7: Stds_SelectSpriteForGrid(grid, c, r) with c >= spriteSheetCols or   *)
(* r >= spriteSheetRows (every (c, r) when no sheet is attached, both      *)
(* counts being 0) leaves clip.x, clip.y and every other field of the grid *)
(* unchanged.                                                              *)
(***************************************************************************)

C7_Step ==
  (/\ lastOp'.name = "SelectSpriteForGrid" /\ lastOp'.grid # NULL
   /\ \/ lastOp'.args[1] >= grids[lastOp'.grid].spriteSheetCols
      \/ lastOp'.args[2] >= grids[lastOp'.grid].spriteSheetRows)
    => UNCHANGED <<grids, onceCall, mouse, texHeap, anims, fault>>

C7_SelectOutOfRangeKeepsGrid == [][C7_Step]_vars

\* A tile was selected, then a selection outside the sheet left it in place
C7_Witness ==
  /\ lastOp.name = "SelectSpriteForGrid" /\ lastOp.grid # NULL
  /\ grids[lastOp.grid].spriteSheet # NULL
  /\ lastOp.args[1] < grids[lastOp.grid].spriteSheetCols
  /\ lastOp.args[2] >= grids[lastOp.grid].spriteSheetRows
  /\ grids[lastOp.grid].clip.x > 0

(***************************************************************************)
(* C10: the sprite-sheet of a grid is attached once.  Over any sequence of *)
(* Stds_AddSpriteSheetToGrid calls on a grid only the first loads a        *)
(* texture; a later call loads nothing and leaves spriteSheet, clip.w,     *)
(* clip.h, spriteSheetCols and spriteSheetRows unchanged.                  *)
(***************************************************************************)

C10_Step ==
  (/\ lastOp'.name = "AddSpriteSheetToGrid" /\ lastOp'.grid # NULL
   /\ grids[lastOp'.grid].spriteSheet # NULL)
    => (texHeap' = texHeap /\ grids'[lastOp'.grid] = grids[lastOp'.grid])

C10_AttachedOnce == [][C10_Step]_vars

---------------------------------------------------------------------------
(* The animations of one grid.  No operation of this part reads edgeHit.   *)

InitAnim == Scene(OneGrid({<<-1, -1>>}), {FALSE}, 0, 0)

NextAnim ==
  \/ AddAnimationIn(AnimIds \cup {NULL})
  \/ RenderAnimationIn(CellArgs, -1..MaxAnimLen, {<<1, 0>>})

SpecAnim == InitAnim /\ [][NextAnim]_vars

(***************************************************************************)
(* C8: Stds_AddAnimationToGrid(grid, NULL) returns -1 and changes neither  *)
(* the size of the grid's animation vector nor animationBuffer, whatever   *)
(* the state of the grid.                                                  *)
(***************************************************************************)

C8_Step ==
  (/\ lastOp'.name = "AddAnimationToGrid" /\ lastOp'.grid # NULL
   /\ lastOp'.args[1] = NULL)
    => /\ ret'.v = -1
       /\ Len(grids'[lastOp'.grid].animation) = Len(grids[lastOp'.grid].animation)
       /\ grids'[lastOp'.grid].animationBuffer = grids[lastOp'.grid].animationBuffer

C8_NullAnimationRejected == [][C8_Step]_vars

\* A null animation was refused by a grid that holds animations
C8_Witness ==
  /\ lastOp.name = "AddAnimationToGrid" /\ lastOp.grid # NULL
  /\ lastOp.args[1] = NULL
  /\ ret.v = -1
  /\ Len(grids[lastOp.grid].animation) > 0
  /\ grids[lastOp.grid].animationBuffer = Len(grids[lastOp.grid].animation) - 1

---------------------------------------------------------------------------
(* The textures of one grid.  No operation of this part reads edgeHit.     *)

InitTexture == Scene(OneGrid({<<-1, -1>>}), {FALSE}, 0, 0)

NextTexture ==
  \/ InitTexturesIn(0..MaxCap)
  \/ AddTextureIn(Files)
  \/ PutTextureIn(CellArgs, -1..MaxCap, Poses)

SpecTexture == InitTexture /\ [][NextTexture]_vars

(***************************************************************************)
(* C9: Stds_PutGridTexture(grid, col, row, index, flip, angle) makes a     *)
(* draw call if and only if -1 < index < textureBuffer.  For an index out  *)
(* of range (negative, or >= textureBuffer, so every index when            *)
(* textureBuffer is 0) it draws nothing; for an index in range it makes    *)
(* exactly one draw, of the texture in slot index, at the rect of cell     *)
(* (col, row).  It changes no state.                                       *)
(***************************************************************************)

C9_State ==
  (lastOp.name = "PutGridTexture" /\ lastOp.grid # NULL) =>
    LET g     == grids[lastOp.grid]
        index == lastOp.args[3]
        rect  == CellRect(g, lastOp.args[1], lastOp.args[2])
    IN  IF -1 < index /\ index < g.textureBuffer
        THEN /\ Len(calls) = 1
             /\ calls[1].prim = "blit"
             /\ calls[1].tex = g.textures.slots[index + 1]
             /\ calls[1].clip.isNull
             /\ calls[1].x = rect.x /\ calls[1].y = rect.y
             /\ calls[1].w = rect.w /\ calls[1].h = rect.h
             /\ calls[1].flip = lastOp.args[4] /\ calls[1].angle = lastOp.args[5]
             /\ calls[1].camera = g.isCameraOn
        ELSE calls = <<>>

C9_Step ==
  lastOp'.name = "PutGridTexture"
    => UNCHANGED <<grids, onceCall, mouse, texHeap, anims, fault, hits>>

C9_PutTextureInRange == [](C9_State) /\ [][C9_Step]_vars

\* A loaded texture was drawn on a cell away from the first
C9_Witness ==
  /\ lastOp.name = "PutGridTexture" /\ lastOp.grid # NULL
  /\ Len(calls) = 1 /\ calls[1].tex >= 1
  /\ lastOp.args[1] > 0 /\ lastOp.args[2] > 0

---------------------------------------------------------------------------
(***************************************************************************)
(* C11: Stds_FreeGrid releases every texture the grid owns.  After any     *)
(* sequence of Stds_InitializeGridTextures, Stds_AddGridTexture and        *)
(* Stds_AddSpriteSheetToGrid calls followed by one Stds_FreeGrid, every    *)
(* texture loaded for the grid has been destroyed exactly once when        *)
(* Stds_FreeGrid returns (and no animation object has been destroyed).     *)
(***************************************************************************)

\* The textures Stds_LoadTexture created for grid gp
LoadedFor(gp) == {t \in 1..Len(texHeap) : texHeap[t].grid = gp}

C11_FreeReleasesTextures ==
  (lastOp.name = "FreeGrid" /\ fault = "none")
    => \A t \in LoadedFor(lastOp.grid) : texHeap[t].destroyed = 1

---------------------------------------------------------------------------
(***************************************************************************)
(* C12: Stds_OnGridClicked makes the scan of Stds_OnGridHover, gated on    *)
(* the button.  For every grid, pointer position and button b: when b is   *)
(* pressed, Stds_OnGridClicked(grid, b) returns the pair (c, r, x, y) that *)
(* Stds_OnGridHover(grid) returns for the same pointer, and a miss leaves  *)
(* b pressed; when b is not pressed it returns the sentinel (-1, -1) and   *)
(* leaves every button's flag as it was.                                   *)
(***************************************************************************)

\* What Stds_OnGridHover returns for grid g with the pointer and edges as they are
HoverResult(g) ==
  LET res == OnGridHoverPass(g, mouse, edgeHit)
  IN  IF res.hit THEN res.p ELSE NoCell(res.p)

C12_Step ==
  (lastOp'.name = "OnGridClicked" /\ lastOp'.grid # NULL) =>
    LET g == grids[lastOp'.grid]
        b == lastOp'.args[1]
    IN  IF mouse.button[b] # 0
        THEN /\ ret' = HoverResult(g)
             /\ ~IsHit(ret') => mouse'.button = mouse.button
        ELSE /\ ret'.c = -1 /\ ret'.r = -1
             /\ mouse'.button = mouse.button

C12_ClickIsGatedHover == [][C12_Step]_vars

\* A press found the second column's cell, where the hover scan finds it too
C12_Witness ==
  /\ lastOp.name = "OnGridClicked" /\ lastOp.grid = 1
  /\ ret.c = 1 /\ ret.x = ToFloat(CellW)
  /\ ret = HoverResult(grids[1])
  /\ mouse.button[lastOp.args[1]] = 0

---------------------------------------------------------------------------
(* Grids from Stds_CreateGrid on, with and without a texture array.  No    *)
(* operation of this part reads edgeHit.                                   *)

InitFresh == Scene({<<>>}, {FALSE}, 0, 0)

NextFresh ==
  \/ CreateIn({<<1, -1>>, <<0, 0>>})
  \/ InitTexturesIn({1})
  \/ AddTextureIn({1})
  \/ PutTextureIn({<<0, 0>>}, -1..MaxCap, {<<1, 0>>})

SpecFresh == InitFresh /\ [][NextFresh]_vars

(***************************************************************************)
(* C13: Stds_CreateGrid returns a grid without textures, ready for use:    *)
(* (x, y) = (sx, sy) = the origin given, textureBuffer 0, no texture       *)
(* array, no sprite-sheet, sheet counts 0, an empty animation vector.  On  *)
(* such a grid (no Stds_InitializeGridTextures has taken effect on it)     *)
(* Stds_AddGridTexture returns -1 without loading or storing a texture and *)
(* Stds_PutGridTexture draws nothing for any index.                        *)
(***************************************************************************)

\* No Stds_InitializeGridTextures has taken effect on g
TextureLess(g) == g.textures.isNull /\ g.textureBuffer = 0

C13_Created ==
  lastOp.name = "CreateGrid" =>
    LET g == grids[lastOp.grid]
    IN  /\ g.x = lastOp.args[1] /\ g.sx = lastOp.args[1]
        /\ g.y = lastOp.args[2] /\ g.sy = lastOp.args[2]
        /\ TextureLess(g)
        /\ g.spriteSheet = NULL
        /\ g.spriteSheetCols = 0 /\ g.spriteSheetRows = 0
        /\ g.animation = <<>>

C13_Step ==
  (lastOp'.grid # NULL /\ lastOp'.grid \in DOMAIN grids
     /\ TextureLess(grids[lastOp'.grid])) =>
    /\ lastOp'.name = "AddGridTexture"
         => (ret'.v = -1 /\ texHeap' = texHeap /\ grids' = grids)
    /\ lastOp'.name = "PutGridTexture" => calls' = <<>>

C13_CreatedGridHasNoTextures == [](C13_Created) /\ [][C13_Step]_vars

\* A created grid refused a texture while another grid holds one
C13_Witness ==
  /\ lastOp.name = "AddGridTexture" /\ lastOp.grid # NULL
  /\ TextureLess(grids[lastOp.grid])
  /\ ret.v = -1
  /\ texHeap # <<>>

---------------------------------------------------------------------------
(***************************************************************************)
(* C14: the latch of Stds_InitializeGridTextures is process-wide.  Once a  *)
(* call has taken effect on one grid, the call on every other grid (also   *)
(* one created after the first grid was freed) is a no-op: that grid keeps *)
(* textureBuffer 0 and no texture array, and every Stds_AddGridTexture on  *)
(* it returns -1.                                                          *)
(***************************************************************************)

\* The live grids a Stds_InitializeGridTextures call has sized
Sized == {gp \in DOMAIN grids : ~TextureLess(grids[gp])}

C14_Step ==
  (onceCall /\ lastOp'.grid # NULL /\ lastOp'.grid \in DOMAIN grids
     /\ TextureLess(grids[lastOp'.grid])) =>
    /\ lastOp'.name = "InitializeGridTextures"
         => (grids' = grids /\ TextureLess(grids'[lastOp'.grid]))
    /\ lastOp'.name = "AddGridTexture" => (ret'.v = -1 /\ texHeap' = texHeap)

C14_LatchIsProcessWide ==
  /\ [](Cardinality(Sized) <= 1 /\ (Sized # {} => onceCall))
  /\ [][C14_Step]_vars

\* The first grid got a texture and was freed; sizing the grid created after
\* it had no effect
C14_Witness ==
  /\ lastOp.name = "InitializeGridTextures" /\ lastOp.grid # NULL
  /\ lastOp.args[1] > 0
  /\ TextureLess(grids[lastOp.grid])
  /\ texHeap # <<>> /\ texHeap[1].destroyed = 1
  /\ Sized = {}

---------------------------------------------------------------------------
(***************************************************************************)
(* C15: Stds_DrawLineGrid on a grid of C columns and R rows makes exactly  *)
(* R+1 horizontal lines, at y = sy + k*sh for k = 0..R, each from x = sx   *)
(* to x = sx + C*sw, and exactly C+1 vertical lines, at x = sx + k*sw for  *)
(* k = 0..C, each from y = sy to y = sy + R*sh, all in the line color, and *)
(* no other draw call.                                                     *)
(***************************************************************************)

HorizontalLine(g, k) ==
  [prim |-> "line",
   x0 |-> g.sx, y0 |-> g.sy + ToFloat(k * g.sh),
   x1 |-> g.sx + ToFloat(g.cols * g.sw), y1 |-> g.sy + ToFloat(k * g.sh),
   color |-> g.lineColor]

VerticalLine(g, k) ==
  [prim |-> "line",
   x0 |-> g.sx + ToFloat(k * g.sw), y0 |-> g.sy,
   x1 |-> g.sx + ToFloat(k * g.sw), y1 |-> g.sy + ToFloat(g.rows * g.sh),
   color |-> g.lineColor]

\* How many of the calls are the call d
TimesDrawn(d) == Cardinality({i \in 1..Len(calls) : calls[i] = d})

C15_LinesOfGrid ==
  (lastOp.name = "DrawLineGrid" /\ lastOp.grid # NULL) =>
    LET g == grids[lastOp.grid]
    IN  /\ \A k \in 0..g.rows : TimesDrawn(HorizontalLine(g, k)) = 1
        /\ \A k \in 0..g.cols : TimesDrawn(VerticalLine(g, k)) = 1
        /\ Len(calls) = (g.rows + 1) + (g.cols + 1)

\* A grid of two columns and one row: two horizontal and three vertical lines
C15_Witness ==
  /\ lastOp.name = "DrawLineGrid" /\ lastOp.grid # NULL
  /\ grids[lastOp.grid].cols = 2 /\ grids[lastOp.grid].rows = 1
  /\ Len(calls) = 5
  /\ calls[5] = VerticalLine(grids[lastOp.grid], 2)

---------------------------------------------------------------------------
(***************************************************************************)
(* C16: Stds_RenderAnimationToGrid draws, then advances.  A call with      *)
(* col < cols, row < rows and the index of a registered animation places   *)
(* the animation on the rect of cell (col, row), sets its size, flip,      *)
(* angle and camera flag, then makes exactly one Stds_AnimationDraw and    *)
(* after it exactly one Stds_AnimationUpdate: the frame drawn is the frame *)
(* that was current before the call.  A call with col >= cols or           *)
(* row >= rows draws nothing, advances nothing and leaves the animation    *)
(* as it was.                                                              *)
(***************************************************************************)

C16_Step ==
  (lastOp'.name = "RenderAnimationToGrid" /\ lastOp'.grid # NULL) =>
    LET g     == grids[lastOp'.grid]
        col   == lastOp'.args[1]
        row   == lastOp'.args[2]
        index == lastOp'.args[3]
        rect  == CellRect(g, col, row)
    IN  IF col < g.cols /\ row < g.rows
        THEN (index >= 0 /\ index < Len(g.animation)) =>
               LET id == g.animation[index + 1]
               IN  /\ Len(calls') = 1
                   /\ calls'[1].prim = "animDraw" /\ calls'[1].anim = id
                   /\ calls'[1].state.frame = anims[id].frame
                   /\ calls'[1].state.pos_x = rect.x /\ calls'[1].state.pos_y = rect.y
                   /\ ToFloat(calls'[1].state.dest_width) = rect.w
                   /\ ToFloat(calls'[1].state.dest_height) = rect.h
                   /\ calls'[1].state.flip = lastOp'.args[4]
                   /\ calls'[1].state.angle = lastOp'.args[5]
                   /\ calls'[1].state.camera = g.isCameraOn
                   /\ anims'[id] = Stds_AnimationUpdate(calls'[1].state)
                   /\ anims'[id].frame # anims[id].frame
                   /\ \A other \in AnimIds \ {id} : anims'[other] = anims[other]
        ELSE calls' = <<>> /\ anims' = anims

C16_DrawThenAdvance == [][C16_Step]_vars

\* The second render of an animation drew the frame the first had advanced to
C16_Witness ==
  /\ lastOp.name = "RenderAnimationToGrid" /\ lastOp.grid # NULL
  /\ Len(calls) = 1
  /\ calls[1].state.frame = 1
  /\ anims[calls[1].anim].frame = (1 + 1) % MaxFrame
  /\ lastOp.args[1] > 0

---------------------------------------------------------------------------
(***************************************************************************)
(* C17: Stds_AddAnimationToGrid with a non-null animation appends it at    *)
(* the end of the grid's animation vector and returns the new count minus  *)
(* 1.  After any sequence of calls, null and non-null mixed,               *)
(* animationBuffer is the size of the vector minus 1, successive           *)
(* successful calls return 0, 1, 2, ..., and the animation returned at     *)
(* index i is the one Stds_RenderAnimationToGrid later uses for index i.   *)
(***************************************************************************)

C17_BufferIsLast ==
  \A gp \in DOMAIN grids :
    grids[gp].animationBuffer = Len(grids[gp].animation) - 1

C17_Step ==
  /\ \A gp \in DOMAIN grids \cap DOMAIN grids' :
       \A i \in 1..Len(grids[gp].animation) :
         /\ i <= Len(grids'[gp].animation)
         /\ grids'[gp].animation[i] = grids[gp].animation[i]
  /\ (lastOp'.name = "AddAnimationToGrid" /\ lastOp'.grid # NULL
        /\ lastOp'.args[1] # NULL) =>
       LET before == grids[lastOp'.grid].animation
           after  == grids'[lastOp'.grid].animation
       IN  /\ after = Append(before, lastOp'.args[1])
           /\ ret'.v = Len(before)
           /\ ret'.v = Len(after) - 1
  /\ (lastOp'.name = "RenderAnimationToGrid" /\ calls' # <<>>) =>
       calls'[1].anim = grids[lastOp'.grid].animation[lastOp'.args[3] + 1]

C17_AnimationIndices == [](C17_BufferIsLast) /\ [][C17_Step]_vars

\* The second animation of a grid got index 1, behind a different first one
C17_Witness ==
  /\ lastOp.name = "AddAnimationToGrid" /\ lastOp.grid # NULL
  /\ lastOp.args[1] # NULL
  /\ ret.v = 1
  /\ grids[lastOp.grid].animation[2] = lastOp.args[1]
  /\ grids[lastOp.grid].animation[1] # lastOp.args[1]

---------------------------------------------------------------------------
(***************************************************************************)
(* C18: after Stds_AddSpriteSheetToGrid(grid, path, cols, rows) on a sheet *)
(* of W by H pixels the clip size is (W div cols, H div rows);             *)
(* Stds_SelectSpriteForGrid(grid, c, r) with c < spriteSheetCols and       *)
(* r < spriteSheetRows sets the clip origin to (c * clip.w, r * clip.h)    *)
(* and changes nothing else; Stds_DrawSelectedSpriteOnGrid then draws that *)
(* clip of the sheet on the rect of cell (col, row), only when col < cols  *)
(* and row < rows.                                                         *)
(***************************************************************************)

C18_State ==
  lastOp.grid # NULL =>
    LET g == grids[lastOp.grid]
    IN  /\ lastOp.name = "AddSpriteSheetToGrid" =>
             /\ g.clip.w = TexW(lastOp.args[1]) \div lastOp.args[2]
             /\ g.clip.h = TexH(lastOp.args[1]) \div lastOp.args[3]
        /\ (lastOp.name = "DrawSelectedSpriteOnGrid" /\ g.spriteSheet # NULL) =>
             IF lastOp.args[1] < g.cols /\ lastOp.args[2] < g.rows
             THEN LET rect == CellRect(g, lastOp.args[1], lastOp.args[2])
                  IN  /\ Len(calls) = 1
                      /\ calls[1].prim = "blit"
                      /\ calls[1].tex = g.spriteSheet
                      /\ ~calls[1].clip.isNull /\ calls[1].clip.rect = g.clip
                      /\ calls[1].x = rect.x /\ calls[1].y = rect.y
                      /\ calls[1].w = rect.w /\ calls[1].h = rect.h
             ELSE calls = <<>>

C18_Step ==
  (/\ lastOp'.name = "SelectSpriteForGrid" /\ lastOp'.grid # NULL
   /\ lastOp'.args[1] < grids[lastOp'.grid].spriteSheetCols
   /\ lastOp'.args[2] < grids[lastOp'.grid].spriteSheetRows) =>
    LET g == grids[lastOp'.grid]
    IN  /\ grids' = [grids EXCEPT ![lastOp'.grid] =
                       [g EXCEPT !.clip.x = lastOp'.args[1] * g.clip.w,
                                 !.clip.y = lastOp'.args[2] * g.clip.h]]
        /\ UNCHANGED <<onceCall, mouse, texHeap, anims, fault>>

C18_ClipOfSheet == [](C18_State) /\ [][C18_Step]_vars

\* The second tile of a sheet cut in two columns was drawn on a cell
C18_Witness ==
  /\ lastOp.name = "DrawSelectedSpriteOnGrid" /\ lastOp.grid # NULL
  /\ Len(calls) = 1
  /\ grids[lastOp.grid].spriteSheetCols = 2 /\ grids[lastOp.grid].spriteSheetRows = 1
  /\ calls[1].clip.rect.x = calls[1].clip.rect.w
  /\ calls[1].clip.rect.w = TexW(texHeap[calls[1].tex].file) \div 2

---------------------------------------------------------------------------
(***************************************************************************)
(* C19: only loaded texture handles are used.  In every reachable state, a *)
(* texture that Stds_PutGridTexture or Stds_DrawSelectedSpriteOnGrid hands *)
(* to Stds_BlitTexture, or that Stds_FreeGrid hands to SDL_DestroyTexture, *)
(* was returned by a load for the grid and has not been destroyed before:  *)
(* no slot of the texture array that Stds_AddGridTexture never wrote and   *)
(* no absent sprite-sheet is drawn or destroyed.                           *)
(***************************************************************************)

\* tex is a texture Stds_LoadTexture returned for grid gp
LoadedHandle(tex, gp) == tex \in 1..Len(texHeap) /\ texHeap[tex].grid = gp

C19_OnlyLoadedHandles ==
  /\ lastOp.name \in {"PutGridTexture", "DrawSelectedSpriteOnGrid"} =>
       \A i \in 1..Len(calls) :
         /\ LoadedHandle(calls[i].tex, lastOp.grid)
         /\ texHeap[calls[i].tex].destroyed = 0
  /\ lastOp.name = "FreeGrid" =>
       \A i \in 1..Len(calls) :
         /\ LoadedHandle(calls[i].tex, lastOp.grid)
         /\ texHeap[calls[i].tex].destroyed = 1

(***************************************************************************)
(* C20: the selected clip lies inside the attached sprite-sheet.  After    *)
(* any sequence of Stds_AddSpriteSheetToGrid (cols, rows > 0) and          *)
(* Stds_SelectSpriteForGrid calls, when a sheet of W by H pixels is        *)
(* attached: clip.x >= 0, clip.y >= 0, clip.x + clip.w <= W,               *)
(* clip.y + clip.h <= H, clip.x and clip.y are whole multiples of clip.w   *)
(* and clip.h, clip.x / clip.w < spriteSheetCols and                       *)
(* clip.y / clip.h < spriteSheetRows.                                      *)
(***************************************************************************)

C20_ClipInsideSheet ==
  \A gp \in DOMAIN grids :
    LET g == grids[gp]
    IN  g.spriteSheet # NULL =>
          LET W == TexW(texHeap[g.spriteSheet].file)
              H == TexH(texHeap[g.spriteSheet].file)
          IN  /\ g.clip.x >= 0 /\ g.clip.y >= 0
              /\ g.clip.x + g.clip.w <= W
              /\ g.clip.y + g.clip.h <= H
              /\ g.clip.w > 0 /\ g.clip.h > 0
              /\ g.clip.x % g.clip.w = 0 /\ g.clip.y % g.clip.h = 0
              /\ g.clip.x \div g.clip.w < g.spriteSheetCols
              /\ g.clip.y \div g.clip.h < g.spriteSheetRows

---------------------------------------------------------------------------
(***************************************************************************)
(* C21: Stds_RenderAnimationToGrid fails soft on a bad index.  Whatever    *)
(* the state of the grid, a call with index < 0 or index >= the number of  *)
(* animations Stds_AddAnimationToGrid registered (so every index on a grid *)
(* without animations) makes no draw, advances no frame and writes through *)
(* no animation handle: the function only touches handles registered on    *)
(* the grid.                                                               *)
(***************************************************************************)

C21_BadIndexFailsSoft ==
  (/\ lastOp.name = "RenderAnimationToGrid" /\ lastOp.grid # NULL
   /\ \/ lastOp.args[3] < 0
      \/ lastOp.args[3] >= Len(grids[lastOp.grid].animation))
    => (calls = <<>> /\ fault = "none")

====
